---- MODULE Spec2Model ----
(***************************************************************************)
(* Model of apache_beam/dataframe/expressions.py: the deferred expression  *)
(* graph (Placeholder / Constant / Computed expressions) and the Session   *)
(* that maps expressions to values and evaluates them.                     *)
(*                                                                         *)
(* Expression objects live in a heap `exprs` (a sequence; the index is the *)
(* object's address, args are indices of earlier objects because args are  *)
(* fixed at construction).  Strings produced by '%s_%s' % (name, id(self)) *)
(* are token sequences <<name, address>>; an explicit _id "x" is <<"x">>;  *)
(* None is <<>>; an optional proxy is <<>> or <<value>>.                   *)
(***************************************************************************)
EXTENDS Integers, Sequences, FiniteSets, TLC

VARIABLES exprs, sessions, last, built, returned, caller

vars == <<exprs, sessions, last, built, returned, caller>>

----------------------------------------------------------------------------
(* Bounds of the model and the inputs the operations are called with.      *)

MaxExprs == 3
MaxSessions == 1
MaxBindings == 1
MaxTwins == 1

ConstVals == {2, 3}
BindVals == {0, 42}
PlaceholderProxies == {1}

None == <<>>
Some(v) == <<v>>

\* (func, proxy, _id) triples ComputedExpression is constructed with.
ComputedInputs ==
  ({"inc", "floordiv"} \X {None} \X {None})
    \cup ({"inc"} \X {None} \X {Some("x")})
    \cup {<<"fail", Some(1), None>>}

ElementwiseFuncs == {"inc"}

\* The inputs of the two-session specification.
TwoConstVals == {2}

TwoComputedInputs ==
  ({"inc"} \X {None} \X {None, Some("x")}) \cup {<<"fail", Some(1), None>>}

----------------------------------------------------------------------------
(* The callables handed to ComputedExpression (user lambdas).              *)

Arity(func) ==
  CASE func = "fail" -> 0
    [] func = "inc" -> 1
    [] func = "floordiv" -> 2

Raise(e) == [ok |-> FALSE, val |-> 0, err |-> e]
Return(v) == [ok |-> TRUE, val |-> v, err |-> ""]

\* func(*vals): fail = lambda: raise, inc = lambda x: x + 1,
\* floordiv = lambda x, y: x // y.
Apply(func, vals) ==
  IF Len(vals) # Arity(func) THEN Raise("TypeError")
  ELSE CASE func = "fail" -> Raise("RuntimeError")
         [] func = "inc" -> Return(vals[1] + 1)
         [] func = "floordiv" ->
              IF vals[2] = 0 THEN Raise("ZeroDivisionError")
              ELSE Return(vals[1] \div vals[2])

----------------------------------------------------------------------------
(* Expression.__init__ and the three subclasses' constructors.  Each       *)
(* returns the new object's fields; addr is id(self).                      *)

\* Mutant: the object's address is left out of the generated identity.
FormatNameOnly(name, addr) == <<name>>

\* '%s_%s' % (name, id(self))
Format(name, addr) == <<name, addr>>

ExpressionInit(name, proxy, _id, addr) ==
  [name |-> name, proxy |-> proxy,
   id |-> IF _id = None THEN Format(name, addr) ELSE _id]

PlaceholderExpression(proxy, addr) ==
  LET base == ExpressionInit("placeholder", proxy, None, addr)
  IN [kind |-> "placeholder", addr |-> addr, name |-> base.name,
      proxy |-> base.proxy, id |-> base.id, value |-> 0, func |-> "",
      args |-> <<>>, requires |-> FALSE, preserves |-> FALSE]

ConstantExpression(value, proxy, addr) ==
  LET p == IF proxy = None THEN value ELSE proxy[1]
      base == ExpressionInit("constant", p, None, addr)
  IN [kind |-> "constant", addr |-> addr, name |-> base.name,
      proxy |-> base.proxy, id |-> base.id, value |-> value, func |-> "",
      args |-> <<>>, requires |-> FALSE, preserves |-> FALSE]

\* proxy = func(*(arg.proxy() for arg in args)) when no proxy is given.
InferProxy(h, func, args) ==
  Apply(func, [i \in 1 .. Len(args) |-> h[args[i]].proxy])

ComputedExpression(h, name, func, args, proxy, _id, req, pres, addr) ==
  LET p == IF proxy = None THEN InferProxy(h, func, args).val ELSE proxy[1]
      base == ExpressionInit(name, p, _id, addr)
  IN [kind |-> "computed", addr |-> addr, name |-> base.name,
      proxy |-> base.proxy, id |-> base.id, value |-> 0, func |-> func,
      args |-> args, requires |-> req, preserves |-> pres]

DefaultRequires == TRUE
DefaultPreserves == FALSE

\* Mutant: the convenience constructor passes the flags the wrong way round.
elementwise_expression_swapped(h, name, func, args, addr) ==
  ComputedExpression(h, name, func, args, None, None, TRUE, FALSE, addr)

\* elementwise_expression(name, func, args)
elementwise_expression(h, name, func, args, addr) ==
  ComputedExpression(h, name, func, args, None, None, FALSE, TRUE, addr)

\* The accessors requires_partition_by_index() / preserves_partition_by_index().
requires_partition_by_index(x) ==
  CASE x.kind = "placeholder" -> FALSE
    [] x.kind = "constant" -> FALSE
    [] x.kind = "computed" -> x.requires

preserves_partition_by_index(x) ==
  CASE x.kind = "placeholder" -> FALSE
    [] x.kind = "constant" -> FALSE
    [] x.kind = "computed" -> x.preserves

----------------------------------------------------------------------------
(* Expression.__hash__ / __eq__, and the key an expression is stored under *)
(* in a Session's dict (a dict finds a key by hash and then by ==, both of *)
(* which read only _id).                                                   *)

Hash(x) == x.id

Eq(x, y) == x.id = y.id

\* Mutant: object identity (the default __hash__/__eq__) instead of _id.
KeyByObject(x) == <<"object", x.addr>>

Key(x) == Hash(x)

----------------------------------------------------------------------------
(* Session: _bindings is a function from keys to values.                   *)

\* Session.__init__: dict(bindings or {}), a copy of the caller's mapping.
SessionInit(bindings) == [k \in DOMAIN bindings |-> bindings[k]]

\* Mutant: self._bindings = bindings, the session writes into the caller's
\* own mapping.
CallerAfterStoreShared(given, stored) == stored

\* What a store into self._bindings does to the mapping the caller passed
\* to Session(): nothing, __init__ made a copy (dict(bindings or {})).
CallerAfterStore(given, stored) == given

\* Mutant: a missing constant is answered from the expression itself.
lookup_or_constant(b, x) ==
  IF Key(x) \in DOMAIN b THEN Return(b[Key(x)])
  ELSE IF x.kind = "constant" THEN Return(x.value) ELSE Raise("KeyError")

\* Mutant: a missing key yields a default instead of raising (dict.get).
lookup_default(b, x) ==
  IF Key(x) \in DOMAIN b THEN Return(b[Key(x)]) ELSE Return(0)

\* Session.lookup: self._bindings[expr]
lookup(b, x) ==
  IF Key(x) \in DOMAIN b THEN Return(b[Key(x)]) ELSE Raise("KeyError")

\* What one call observes besides its result: calls[i] is how often the
\* function of object i was applied, recv[i] the argument values it got.
NoCalls(h) == [i \in 1 .. Len(h) |-> 0]

NoRecv(h) == [i \in 1 .. Len(h) |-> <<>>]

Leaf(h, r) ==
  [ok |-> r.ok, val |-> r.val, err |-> r.err,
   calls |-> NoCalls(h), recv |-> NoRecv(h)]

Min(S) == CHOOSE m \in S : \A n \in S : m <= n

Max(S) == CHOOSE m \in S : \A n \in S : m >= n

RECURSIVE SumCalls(_, _, _)
\* pointwise sum of rs[1].calls .. rs[n].calls
SumCalls(h, rs, n) ==
  IF n = 0 THEN NoCalls(h)
  ELSE LET rest == SumCalls(h, rs, n - 1)
       IN [i \in 1 .. Len(h) |-> rest[i] + rs[n].calls[i]]

\* recv of the latest of rs[1] .. rs[n] that applied object i's function
MergeRecv(h, rs, n) ==
  [i \in 1 .. Len(h) |->
     LET ks == {k \in 1 .. n : rs[k].calls[i] > 0}
     IN IF ks = {} THEN <<>> ELSE rs[Max(ks)].recv[i]]

RECURSIVE evaluate_at(_, _, _)

\* Mutant: an unbound-or-not placeholder answers with its proxy.
placeholder_evaluate_at_proxy(h, b, e) == Leaf(h, Return(h[e].proxy))

\* PlaceholderExpression.evaluate_at: session.lookup(self)
placeholder_evaluate_at(h, b, e) == Leaf(h, lookup(b, h[e]))

\* Mutant: a constant goes through the session's bindings first.
constant_evaluate_at_bound(h, b, e) ==
  Leaf(h, IF Key(h[e]) \in DOMAIN b THEN Return(b[Key(h[e])])
          ELSE Return(h[e].value))

\* ConstantExpression.evaluate_at: self._value
constant_evaluate_at(h, b, e) == Leaf(h, Return(h[e].value))

\* The value ComputedExpression.evaluate_at obtains for one argument:
\* arg.evaluate_at(session).
ArgValue(h, b, a) == evaluate_at(h, b, a)

RECURSIVE ArgValues(_, _, _, _)
\* (arg.evaluate_at(session) for arg in self._args), the first n of them
ArgValues(h, b, args, n) ==
  IF n = 0 THEN <<>>
  ELSE Append(ArgValues(h, b, args, n - 1), ArgValue(h, b, args[n]))

\* ComputedExpression.evaluate_at:
\*   self._func(*(arg.evaluate_at(session) for arg in self._args))
\* The generator is consumed left to right before the call; the first
\* argument that raises ends it, and the function is then not applied.
computed_evaluate_at(h, b, e) ==
  LET args == h[e].args
      rs == ArgValues(h, b, args, Len(args))
      failed == {i \in 1 .. Len(args) : ~rs[i].ok}
      n == IF failed = {} THEN Len(args) ELSE Min(failed)
      calls == SumCalls(h, rs, n)
      recv == MergeRecv(h, rs, n)
  IN IF failed # {}
       THEN [ok |-> FALSE, val |-> 0, err |-> rs[n].err,
             calls |-> calls, recv |-> recv]
       ELSE LET vals == [i \in 1 .. Len(args) |-> rs[i].val]
                r == Apply(h[e].func, vals)
            IN [ok |-> r.ok, val |-> r.val, err |-> r.err,
                calls |-> [calls EXCEPT ![e] = @ + 1],
                recv |-> [recv EXCEPT ![e] = vals]]

\* expr.evaluate_at(session), dispatched on the expression's class.
evaluate_at(h, b, e) ==
  CASE h[e].kind = "placeholder" -> placeholder_evaluate_at(h, b, e)
    [] h[e].kind = "constant" -> constant_evaluate_at(h, b, e)
    [] h[e].kind = "computed" -> computed_evaluate_at(h, b, e)

\* Mutant: a miss starts the mapping afresh, dropping the other entries.
evaluate_evicting(h, b, e) ==
  IF Key(h[e]) \notin DOMAIN b
    THEN LET r == evaluate_at(h, b, e)
         IN [ok |-> r.ok, val |-> r.val, err |-> r.err, calls |-> r.calls,
             recv |-> r.recv,
             bindings |-> IF r.ok THEN (Key(h[e]) :> r.val) ELSE b]
    ELSE [ok |-> TRUE, val |-> b[Key(h[e])], err |-> "", calls |-> NoCalls(h),
          recv |-> NoRecv(h), bindings |-> b]

\* Mutant: a failed computation leaves a fallback entry behind.
evaluate_fallback(h, b, e) ==
  IF Key(h[e]) \notin DOMAIN b
    THEN LET r == evaluate_at(h, b, e)
         IN [ok |-> r.ok, val |-> r.val, err |-> r.err, calls |-> r.calls,
             recv |-> r.recv,
             bindings |-> (Key(h[e]) :> r.val) @@ b]
    ELSE [ok |-> TRUE, val |-> b[Key(h[e])], err |-> "", calls |-> NoCalls(h),
          recv |-> NoRecv(h), bindings |-> b]

\* Mutant: no membership test, the expression is computed on every call.
evaluate_always(h, b, e) ==
  LET r == evaluate_at(h, b, e)
  IN [ok |-> r.ok, val |-> r.val, err |-> r.err, calls |-> r.calls,
      recv |-> r.recv,
      bindings |-> IF r.ok
                     THEN [k \in DOMAIN b \cup {Key(h[e])} |->
                             IF k = Key(h[e]) THEN r.val ELSE b[k]]
                     ELSE b]

\* Session.evaluate: the result, what the call observed, and the session's
\* bindings afterwards.
\*   if expr not in self._bindings:
\*     self._bindings[expr] = expr.evaluate_at(self)
\*   return self._bindings[expr]
evaluate(h, b, e) ==
  IF Key(h[e]) \notin DOMAIN b
    THEN LET r == evaluate_at(h, b, e)
         IN [ok |-> r.ok, val |-> r.val, err |-> r.err, calls |-> r.calls,
             recv |-> r.recv,
             bindings |-> IF r.ok THEN (Key(h[e]) :> r.val) @@ b ELSE b]
    ELSE [ok |-> TRUE, val |-> b[Key(h[e])], err |-> "", calls |-> NoCalls(h),
          recv |-> NoRecv(h), bindings |-> b]

----------------------------------------------------------------------------
(* State.  exprs: the heap of constructed expressions.  sessions: each     *)
(* session's _bindings.  last: the last call made on a session, what it    *)
(* returned or raised, what it observed, the bindings it started from      *)
(* (pre) and whether the same call had already succeeded (again).  built:  *)
(* for each object, the constructor call that made it.  returned: the      *)
(* <<session, expression, value>> of every successful evaluate so far.     *)
(* caller: for each session, the mapping object its caller passed in.      *)

Init ==
  /\ exprs = <<>>
  /\ sessions = <<>>
  /\ last = [op |-> "none", s |-> 0, e |-> 0, ok |-> TRUE, val |-> 0,
             err |-> "", calls |-> <<>>, recv |-> <<>>, pre |-> <<>>,
             again |-> FALSE]
  /\ built = <<>>
  /\ returned = {}
  /\ caller = <<>>

Addr == Len(exprs) + 1

NewPlaceholder(proxy) ==
  /\ Len(exprs) < MaxExprs
  /\ exprs' = Append(exprs, PlaceholderExpression(proxy, Addr))
  /\ built' = Append(built, [via |-> "PlaceholderExpression", value |-> 0,
                            _id |-> None])
  /\ UNCHANGED <<sessions, last, returned, caller>>

NewConstant(value) ==
  /\ Len(exprs) < MaxExprs
  /\ exprs' = Append(exprs, ConstantExpression(value, None, Addr))
  /\ built' = Append(built, [via |-> "ConstantExpression", value |-> value,
                            _id |-> None])
  /\ UNCHANGED <<sessions, last, returned, caller>>

\* ComputedExpression(name, func, args, proxy, _id): raises, and constructs
\* nothing, when the proxy has to be inferred and func raises on the proxies.
NewComputed(func, args, proxy, _id) ==
  /\ Len(exprs) < MaxExprs
  /\ proxy = None => InferProxy(exprs, func, args).ok
  /\ exprs' = Append(exprs,
       ComputedExpression(exprs, func, func, args, proxy, _id,
                          DefaultRequires, DefaultPreserves, Addr))
  /\ built' = Append(built, [via |-> "ComputedExpression", value |-> 0,
                            _id |-> _id])
  /\ UNCHANGED <<sessions, last, returned, caller>>

NewElementwise(func, args) ==
  /\ Len(exprs) < MaxExprs
  /\ InferProxy(exprs, func, args).ok
  /\ exprs' = Append(exprs, elementwise_expression(exprs, func, func, args, Addr))
  /\ built' = Append(built, [via |-> "elementwise_expression", value |-> 0,
                            _id |-> None])
  /\ UNCHANGED <<sessions, last, returned, caller>>

NewSession(bindings) ==
  /\ Len(sessions) < MaxSessions
  /\ sessions' = Append(sessions, SessionInit(bindings))
  /\ caller' = Append(caller, bindings)
  /\ UNCHANGED <<exprs, last, built, returned>>

\* One more Session() from the mapping the first session was built from.
NewTwinSession ==
  /\ Len(sessions) \in 1 .. MaxTwins
  /\ sessions' = Append(sessions, SessionInit(caller[1]))
  /\ caller' = Append(caller, caller[1])
  /\ UNCHANGED <<exprs, last, built, returned>>

\* Mutant: the value is also remembered in the expression object itself.
Evaluate_storing_in_node(s, e) ==
  LET r == evaluate(exprs, sessions[s], e)
  IN /\ sessions' = [sessions EXCEPT ![s] = r.bindings]
     /\ last' = [op |-> "evaluate", s |-> s, e |-> e, ok |-> r.ok, val |-> r.val,
                 err |-> r.err, calls |-> r.calls, recv |-> r.recv,
                 pre |-> sessions[s],
                 again |-> \E t \in returned : t[1] = s /\ t[2] = e]
     /\ returned' = IF r.ok THEN returned \cup {<<s, e, r.val>>} ELSE returned
     /\ exprs' = IF r.ok THEN [exprs EXCEPT ![e].value = r.val] ELSE exprs
     /\ UNCHANGED <<built, caller>>

Evaluate(s, e) ==
  LET r == evaluate(exprs, sessions[s], e)
  IN /\ sessions' = [sessions EXCEPT ![s] = r.bindings]
     /\ last' = [op |-> "evaluate", s |-> s, e |-> e, ok |-> r.ok, val |-> r.val,
                 err |-> r.err, calls |-> r.calls, recv |-> r.recv,
                 pre |-> sessions[s],
                 again |-> \E t \in returned : t[1] = s /\ t[2] = e]
     /\ returned' = IF r.ok THEN returned \cup {<<s, e, r.val>>} ELSE returned
     /\ caller' = [caller EXCEPT ![s] = CallerAfterStore(@, r.bindings)]
     /\ UNCHANGED <<exprs, built>>

Lookup(s, e) ==
  LET r == lookup(sessions[s], exprs[e])
  IN /\ last' = [op |-> "lookup", s |-> s, e |-> e, ok |-> r.ok, val |-> r.val,
                 err |-> r.err, calls |-> NoCalls(exprs), recv |-> NoRecv(exprs),
                 pre |-> sessions[s], again |-> FALSE]
     /\ UNCHANGED <<exprs, sessions, built, returned, caller>>

\* expr.evaluate_at(session) called directly by the caller.
EvaluateAt(s, e) ==
  LET r == evaluate_at(exprs, sessions[s], e)
  IN /\ last' = [op |-> "evaluate_at", s |-> s, e |-> e, ok |-> r.ok,
                 val |-> r.val, err |-> r.err, calls |-> r.calls,
                 recv |-> r.recv, pre |-> sessions[s], again |-> FALSE]
     /\ UNCHANGED <<exprs, sessions, built, returned, caller>>

Objs == 1 .. Len(exprs)

Constants == {i \in Objs : exprs[i].kind = "constant"}

ArgSeqs(n) == [1 .. n -> Objs]

Keys == {Key(exprs[i]) : i \in Objs}

\* The mappings a caller passes to Session(): at most MaxBindings entries.
BindingInputs ==
  {<<>>} \cup UNION {[K -> BindVals] :
                      K \in {K \in SUBSET Keys : Cardinality(K) \in 1 .. MaxBindings}}

Next ==
  \/ \E p \in PlaceholderProxies : NewPlaceholder(p)
  \/ \E v \in ConstVals : NewConstant(v)
  \/ \E c \in ComputedInputs : \E args \in ArgSeqs(Arity(c[1])) :
       NewComputed(c[1], args, c[2], c[3])
  \/ \E f \in ElementwiseFuncs : \E args \in ArgSeqs(Arity(f)) :
       NewElementwise(f, args)
  \/ \E b \in BindingInputs : NewSession(b)
  \/ \E s \in 1 .. Len(sessions) : \E e \in Objs : Evaluate(s, e)
  \/ \E s \in 1 .. Len(sessions) : \E e \in Objs : Lookup(s, e)
  \/ \E s \in 1 .. Len(sessions) : \E e \in Constants : EvaluateAt(s, e)

Spec == Init /\ [][Next]_vars

\* Two sessions built from the same mapping, over the same expressions.
NextTwo ==
  \/ \E p \in PlaceholderProxies : NewPlaceholder(p)
  \/ \E v \in TwoConstVals : NewConstant(v)
  \/ \E c \in TwoComputedInputs : \E args \in ArgSeqs(Arity(c[1])) :
       NewComputed(c[1], args, c[2], c[3])
  \/ \E b \in BindingInputs : NewSession(b)
  \/ NewTwinSession
  \/ \E s \in 1 .. Len(sessions) : \E e \in Objs : Evaluate(s, e)

SpecTwo == Init /\ [][NextTwo]_vars

----------------------------------------------------------------------------
(* Vocabulary of the properties.                                           *)

Range(f) == {f[i] : i \in DOMAIN f}

RECURSIVE Reach(_, _)
\* the objects reachable from e through args, e included
Reach(h, e) == {e} \cup UNION {Reach(h, a) : a \in Range(h[e].args)}

Called == DOMAIN last.calls

LastKey == Key(exprs[last.e])

Hit == LastKey \in DOMAIN last.pre

NothingApplied == \A i \in Called : last.calls[i] = 0

\* e is not bound in b and a placeholder that is not bound in b is reachable
DependsOnUnbound(h, b, e) ==
  /\ Key(h[e]) \notin DOMAIN b
  /\ \E i \in Reach(h, e) : h[i].kind = "placeholder" /\ Key(h[i]) \notin DOMAIN b

----------------------------------------------------------------------------
\* C1: one Session.evaluate(root) applies the function of every computed
\* expression reachable from root at most once, also when the expression is
\* shared by several parents or repeated in one argument list.
C1_ExactlyOnce ==
  last.op = "evaluate" => \A i \in Called : last.calls[i] <= 1

\* C2: when Session.evaluate(root) has computed root (root was not bound) and
\* returned, the session holds an entry for root and for every expression
\* reachable from root.
C2_DependenciesCached ==
  (last.op = "evaluate" /\ last.ok /\ ~Hit) =>
    \A i \in Reach(exprs, last.e) : Key(exprs[i]) \in DOMAIN sessions[last.s]

\* C3: a computed expression c bound when the call starts is never applied
\* during Session.evaluate(root), and every parent applied in that call
\* receives c's bound value at c's argument positions.
C3_BoundIntermediateHonoured ==
  last.op = "evaluate" =>
    \A i \in Called :
      (exprs[i].kind = "computed" /\ Key(exprs[i]) \in DOMAIN last.pre) =>
        /\ last.calls[i] = 0
        /\ \A j \in Called : \A k \in 1 .. Len(exprs[j].args) :
             (last.calls[j] > 0 /\ exprs[j].args[k] = i) =>
               last.recv[j][k] = last.pre[Key(exprs[i])]

\* C4: once Session.evaluate(root) has succeeded on a session, every later
\* Session.evaluate(root) on it returns the same value, applies no function
\* and leaves the bindings as they were.
C4_IdempotentReevaluation ==
  /\ \A t \in returned : \A u \in returned :
       (t[1] = u[1] /\ t[2] = u[2]) => t[3] = u[3]
  /\ (last.op = "evaluate" /\ last.again) =>
       /\ last.ok
       /\ NothingApplied
       /\ sessions[last.s] = last.pre

C4_Witness ==
  /\ last.op = "evaluate" /\ last.again
  /\ exprs[last.e].kind = "computed"
  /\ \E i \in Reach(exprs, last.e) : i # last.e /\ exprs[i].kind = "computed"

\* C5 as stated: Session.evaluate(expr) of an unbound placeholder, or of an
\* unbound computed expression that reaches one, fails with a KeyError.
C5_UnboundIsKeyError ==
  (last.op = "evaluate" /\ DependsOnUnbound(exprs, last.pre, last.e)) =>
    (~last.ok /\ last.err = "KeyError")

\* C5 (amended): Session.evaluate(expr) of an unbound placeholder, or of an
\* unbound computed expression that reaches one, never returns a value; it
\* fails with a KeyError, unless a function applied earlier in the walk
\* raised, and then it fails with that function's error.
C5_UnboundFails ==
  (last.op = "evaluate" /\ DependsOnUnbound(exprs, last.pre, last.e)) =>
    /\ ~last.ok
    /\ sessions[last.s] = last.pre
    /\ exprs[last.e].kind = "placeholder" => last.err = "KeyError"
    /\ last.err # "KeyError" =>
         \E i \in Reach(exprs, last.e) :
           /\ exprs[i].kind = "computed" /\ last.calls[i] > 0
           /\ ~Apply(exprs[i].func, last.recv[i]).ok
           /\ Apply(exprs[i].func, last.recv[i]).err = last.err

C5_Witness ==
  /\ last.op = "evaluate" /\ DependsOnUnbound(exprs, last.pre, last.e)
  /\ exprs[last.e].kind = "computed"
  /\ last.err = "KeyError"
  /\ \E i \in Reach(exprs, last.e) :
       /\ exprs[i].kind = "placeholder"
       /\ i \notin Range(exprs[last.e].args)

\* C6: expressions with the same identity compare equal and hash equally,
\* and once the session holds a value for one of them, Session.evaluate and
\* Session.lookup of another return that value and apply no function.
C6_IdentityKeyed ==
  /\ \A i \in Objs : \A j \in Objs :
       exprs[i].id = exprs[j].id =>
         (Eq(exprs[i], exprs[j]) /\ Hash(exprs[i]) = Hash(exprs[j]))
  /\ last.op \in {"evaluate", "lookup"} =>
       \A j \in Objs :
         (j # last.e /\ exprs[j].id = exprs[last.e].id
            /\ lookup(last.pre, exprs[j]).ok) =>
           /\ last.ok
           /\ last.val = lookup(last.pre, exprs[j]).val
           /\ NothingApplied

C6_Witness ==
  /\ last.op = "evaluate"
  /\ \E j \in Objs :
       /\ j # last.e /\ exprs[j].id = exprs[last.e].id
       /\ lookup(last.pre, exprs[j]).ok
       /\ \E t \in returned : t[1] = last.s /\ t[2] = j
  /\ evaluate_at(exprs, last.pre, last.e).ok
  /\ evaluate_at(exprs, last.pre, last.e).val # last.val

\* C7: Session.evaluate(e) of a computed expression e that is not bound
\* returns f(v1..vn), vi being the value the same session gives for the
\* i-th argument.
C7_ResultFromSessionValues ==
  (last.op = "evaluate" /\ last.ok /\ ~Hit /\ exprs[last.e].kind = "computed") =>
    LET args == exprs[last.e].args
        vs == [k \in 1 .. Len(args) |->
                 evaluate(exprs, sessions[last.s], args[k]).val]
    IN last.val = Apply(exprs[last.e].func, vs).val

\* C8: a placeholder p bound to v evaluates and looks up to v, and every
\* computed expression applied with p as an argument receives v at p's
\* position.
C8_PlaceholderRoundTrip ==
  /\ (last.op \in {"evaluate", "lookup"} /\ exprs[last.e].kind = "placeholder"
        /\ Hit) =>
       (last.ok /\ last.val = last.pre[LastKey])
  /\ last.op = "evaluate" =>
       \A j \in Called : \A k \in 1 .. Len(exprs[j].args) :
         LET a == exprs[j].args[k]
         IN (last.calls[j] > 0 /\ exprs[a].kind = "placeholder") =>
              /\ Key(exprs[a]) \in DOMAIN last.pre
              /\ last.recv[j][k] = last.pre[Key(exprs[a])]

C8_Witness ==
  /\ last.op = "evaluate" /\ last.ok
  /\ last.calls[last.e] > 0
  /\ \E k \in 1 .. Len(exprs[last.e].args) :
       /\ exprs[exprs[last.e].args[k]].kind = "placeholder"
       /\ last.recv[last.e][k] = 42

\* C9: a ComputedExpression built without flags requires and does not
\* preserve partitioning by index, one built by elementwise_expression does
\* not require and preserves it, placeholders and constants report false for
\* both; in every state, whatever session operations came before.
C9_PartitioningFlags ==
  \A i \in Objs :
    LET req == requires_partition_by_index(exprs[i])
        pres == preserves_partition_by_index(exprs[i])
    IN CASE built[i].via = "ComputedExpression" -> req /\ ~pres
         [] built[i].via = "elementwise_expression" -> ~req /\ pres
         [] OTHER -> ~req /\ ~pres

C9_Witness ==
  /\ last.op = "evaluate" /\ last.ok
  /\ built[last.e].via = "elementwise_expression"
  /\ \E i \in Objs : built[i].via = "ComputedExpression"
  /\ \E i \in Objs : built[i].via = "PlaceholderExpression"

\* C10: ConstantExpression.evaluate_at(session) returns the value given at
\* construction whatever the session holds, and leaves the session's
\* bindings as they were.
C10_ConstantEvaluation ==
  (last.op = "evaluate_at" /\ exprs[last.e].kind = "constant") =>
    /\ last.ok
    /\ last.val = built[last.e].value
    /\ sessions[last.s] = last.pre

C10_Witness ==
  /\ last.op = "evaluate_at" /\ exprs[last.e].kind = "constant"
  /\ Hit
  /\ last.pre[LastKey] # built[last.e].value

----------------------------------------------------------------------------
\* C11: an entry a session's mapping holds stays in it with the same value
\* across every step, whatever call is made and whether it succeeds or fails.
C11_NoEvictionNoOverwrite ==
  [][\A s \in 1 .. Len(sessions) : \A k \in DOMAIN sessions[s] :
       k \in DOMAIN sessions'[s] /\ sessions'[s][k] = sessions[s][k]]_vars

C11_Witness ==
  /\ last.op = "evaluate" /\ ~last.ok
  /\ \E k \in DOMAIN last.pre : k # LastKey
  /\ \E t \in returned :
       /\ t[1] = last.s /\ t[2] # last.e
       /\ exprs[t[2]].kind = "computed"
       /\ Key(exprs[t[2]]) \in DOMAIN sessions[last.s]

\* C12: Session.lookup(expr) applies no function and leaves the mapping as
\* it was; it returns the stored value when expr's key is present and fails
\* with a KeyError when it is not, also for a constant or computed expr.
C12_LookupNeverComputes ==
  last.op = "lookup" =>
    /\ NothingApplied
    /\ sessions[last.s] = last.pre
    /\ Hit => (last.ok /\ last.val = last.pre[LastKey])
    /\ ~Hit => (~last.ok /\ last.err = "KeyError")

C12_Witness ==
  /\ last.op = "lookup" /\ ~last.ok
  /\ exprs[last.e].kind = "constant"
  /\ DOMAIN last.pre # {}

\* C13: a failed Session.evaluate(expr) raises the error of the lookup or of
\* the function that failed, stores nothing (the mapping is as before and has
\* no entry for expr), and has applied the failing function once.
C13_FailureLeavesNothing ==
  (last.op = "evaluate" /\ ~last.ok) =>
    /\ sessions[last.s] = last.pre
    /\ LastKey \notin DOMAIN sessions[last.s]
    /\ \/ /\ last.err = "KeyError"
          /\ \E i \in Reach(exprs, last.e) :
               exprs[i].kind = "placeholder" /\ ~lookup(last.pre, exprs[i]).ok
       \/ \E i \in Reach(exprs, last.e) :
            /\ exprs[i].kind = "computed" /\ last.calls[i] = 1
            /\ Apply(exprs[i].func, last.recv[i]) = Raise(last.err)

C13_Witness ==
  /\ last.op = "evaluate" /\ ~last.ok
  /\ last.err = "ZeroDivisionError"
  /\ DOMAIN last.pre # {}

RECURSIVE Total(_, _)
\* calls[1] + .. + calls[n]
Total(calls, n) == IF n = 0 THEN 0 ELSE Total(calls, n - 1) + calls[n]

\* C15: one Session.evaluate(root) applies at most as many functions as
\* there are distinct computed expressions reachable from root.
C15_BoundedApplications ==
  last.op = "evaluate" =>
    Total(last.calls, Len(last.calls)) <=
      Cardinality({i \in Reach(exprs, last.e) : exprs[i].kind = "computed"})

\* C17: no step changes an expression that exists: its identity, arguments,
\* stored value, proxy and partition flags stay as constructed.
C17_ExpressionsImmutable ==
  [][\A i \in 1 .. Len(exprs) : i \in DOMAIN exprs' /\ exprs'[i] = exprs[i]]_vars

C17_Witness ==
  /\ last.op = "evaluate" /\ last.ok
  /\ exprs[last.e].kind = "computed" /\ last.calls[last.e] > 0
  /\ \E t \in returned : t[2] # last.e
  /\ Len(exprs) = MaxExprs

----------------------------------------------------------------------------
\* C14: no step changes the mapping a caller passed to Session(), and a
\* step changes a session's own mapping only when it is an evaluate on that
\* session; every other session's mapping stays as it was.
C14_SessionIsolation ==
  [][/\ \A s \in 1 .. Len(caller) : caller'[s] = caller[s]
     /\ \A s \in 1 .. Len(sessions) :
          sessions'[s] # sessions[s] => (last'.op = "evaluate" /\ last'.s = s)]_vars

C14_Witness ==
  /\ Len(sessions) > 1
  /\ last.op = "evaluate" /\ last.ok /\ ~Hit
  /\ DOMAIN caller[last.s] # {}
  /\ \E t \in 1 .. Len(sessions) :
       /\ t # last.s
       /\ LastKey \notin DOMAIN sessions[t]
       /\ sessions[t] # caller[t]

\* e has no explicit _id, or every expression constructed with the same
\* explicit _id has e's function and arguments
SoleDefinition(e) ==
  \A j \in Objs :
    (built[e]._id # None /\ built[j]._id = built[e]._id) =>
      (exprs[j].func = exprs[e].func /\ exprs[j].args = exprs[e].args)

\* C16 as stated: sessions started from the same bindings agree on the value
\* of every expression both have evaluated, whatever else they evaluated and
\* in whatever order.
C16_OrderIndependent ==
  \A t \in returned : \A u \in returned :
    (caller[t[1]] = caller[u[1]] /\ t[2] = u[2]) => t[3] = u[3]

\* C16 (amended): sessions started from the same bindings agree on the value
\* of every expression both have evaluated, for every expression whose
\* explicit _id, if it has one, is shared only with expressions of the same
\* function and arguments.
C16_OrderIndependentSoleDefinition ==
  \A t \in returned : \A u \in returned :
    (caller[t[1]] = caller[u[1]] /\ t[2] = u[2] /\ SoleDefinition(t[2])) =>
      t[3] = u[3]

C16_Witness ==
  /\ Len(sessions) > 1
  /\ sessions[1] # sessions[2]
  /\ \E t \in returned : \E u \in returned :
       /\ t[1] # u[1] /\ t[2] = u[2]
       /\ exprs[t[2]].kind = "computed"
       /\ built[t[2]]._id # None
       /\ \E j \in Objs : j # t[2] /\ built[j]._id = built[t[2]]._id
       /\ \E v \in returned : v[1] = t[1] /\ v[2] # t[2]

====
